---- MODULE Spec2Model ----
(***************************************************************************)
(* Strategy Backtest & Selection Engine of ChartMonitor                    *)
(* (src/backtesters/fullbacktest.js, src/backtesters/singlebacktest.js).   *)
(*                                                                         *)
(* The main state machines of this module:                                 *)
(*   SimSpec   - runBacktestFromParquet walking one candle series bar by   *)
(*               bar against an arbitrary strategy function;               *)
(*   SchedSpec - runConcurrentBacktests / processStockConcurrent /         *)
(*               saveResult: the batch scheduler, the per-symbol tasks and *)
(*               the persisted result store.                               *)
(* RisingSpec runs the simulator on rising series and WideSpec on series   *)
(* whose closes triple or fall to a third, SizeSpec computes the position  *)
(* size and ExitSpec the exit conditions of one bar on their own, PrepSpec *)
(* is the morning sequence of scheduler/scheduler.js, HistSpec the daily   *)
(* updater of Historical/historicalDBBuilder.js; the consumers of          *)
(* results.json (stock_strat_test) are operators over the persisted        *)
(* collection.                                                             *)
(*                                                                         *)
(* JavaScript numbers of the simulator are modelled as exact rationals     *)
(* <<n, d>> (d > 0, lowest terms); toFixed(2) is modelled as rounding to   *)
(* an integer number of hundredths.  JavaScript arrays are 0-based: the    *)
(* JS element a[k] is the TLA+ element a[k + 1].                           *)
(***************************************************************************)
EXTENDS Integers, Sequences, FiniteSets, TLC

\* ------------------------------------------------------------------------
\* Exact rational arithmetic (stands for the JS double arithmetic)
\* ------------------------------------------------------------------------
Abs(x) == IF x < 0 THEN -x ELSE x

RECURSIVE GCD(_, _)
GCD(a, b) == IF b = 0 THEN a ELSE GCD(b, a % b)

Norm(n, d) ==
  LET g == GCD(Abs(n), Abs(d))
      s == IF d < 0 THEN -1 ELSE 1
  IN  <<(s * n) \div g, (s * d) \div g>>

R(n) == <<n, 1>>
RAdd(a, b) == Norm(a[1] * b[2] + b[1] * a[2], a[2] * b[2])
RSub(a, b) == Norm(a[1] * b[2] - b[1] * a[2], a[2] * b[2])
RMul(a, b) == Norm(a[1] * b[1], a[2] * b[2])
RDiv(a, b) == Norm(a[1] * b[2], a[2] * b[1])
RLe(a, b) == a[1] * b[2] <= b[1] * a[2]
RLt(a, b) == a[1] * b[2] < b[1] * a[2]
RMax(a, b) == IF RLe(a, b) THEN b ELSE a
RMin(a, b) == IF RLe(a, b) THEN a ELSE b
RAbs(a) == <<Abs(a[1]), a[2]>>

\* Number.prototype.toFixed(2) followed by parseFloat, for a non-negative
\* value: the nearest number of hundredths, halves rounded up.
ToFixed2(a) == (2 * 100 * a[1] + a[2]) \div (2 * a[2])

Min2(a, b) == IF a <= b THEN a ELSE b

\* ------------------------------------------------------------------------
\* Bounds of the model
\* ------------------------------------------------------------------------
MaxBars == 4
NumCsvSymbols == 2
MaxStored == 2
MaxStrategies == 2
MaxWriteFailures == 1

\* ------------------------------------------------------------------------
\* Constants of runBacktestFromParquet
\* ------------------------------------------------------------------------
WARMUP == 25
WINDOW == 30
COOLDOWN == 8
HORIZON == 12
StartBalance == 100
MinRiskAmount == 30
RiskFraction == <<3, 20>>
StopFactor == <<7, 10>>
TargetFactor == <<11, 10>>
LockFactor == <<7, 20>>
Epsilon == <<1, 10000>>
NoLastTrade == -999

NULL == "null"
Signals == {"long", "short"}

\* Closes a candle can have (positive), and values the ATR helper can return.
Prices == {10, 20}
AtrValues == {R(0), R(1)}

VARIABLES
  lower, simPc, i, prices, trades, wins, losses, totalDuration, totalRR,
  lastTradeIndex, balance, investmentGone, tradeSignal, tradeLog, result,
  calls, caught

simVars == <<lower, simPc, i, prices, trades, wins, losses, totalDuration,
             totalRR, lastTradeIndex, balance, investmentGone, tradeSignal,
             tradeLog, result, calls, caught>>

VARIABLES
  strategies, data, file0, allResults, file, alreadyRetestedSymbols,
  tradableStocks, retryQueue, totalStocks, processedCount, schedPc, batch,
  task, writeCount, writeFailures, lastSave, failedLog, dispatchLog

schedVars == <<strategies, data, file0, allResults, file,
               alreadyRetestedSymbols, tradableStocks, retryQueue,
               totalStocks, processedCount, schedPc, batch, task, writeCount,
               writeFailures, lastSave, failedLog, dispatchLog>>

\* Inputs and outputs of the pure computations checked on their own
VARIABLES fnIn, fnOut

pureVars == <<fnIn, fnOut>>

\* The morning sequence of the master scheduler (scheduler/scheduler.js)
VARIABLES prepPc, prepScript, prepAttempt, prepLog, prepResults

prepVars == <<prepPc, prepScript, prepAttempt, prepLog, prepResults>>

\* The historical updater (Historical/historicalDBBuilder.js)
VARIABLES histPc, histRun, today, stored, storedAtStart, progress, tasks,
          index, activeDownloads, fetched

histVars == <<histPc, histRun, today, stored, storedAtStart, progress, tasks,
              index, activeDownloads, fetched>>

vars == <<simVars, schedVars, pureVars, prepVars, histVars>>

\* What the simulator, and what the batch scheduler, leaves alone
besidesSim == <<schedVars, pureVars, prepVars, histVars>>
besidesSched == <<simVars, pureVars, prepVars, histVars>>

\* ------------------------------------------------------------------------
\* runBacktestFromParquet
\* ------------------------------------------------------------------------
RECURSIVE SeqsOver(_, _)
SeqsOver(S, n) ==
  IF n = 0 THEN {<<>>}
  ELSE {Append(q, x) : q \in SeqsOver(S, n - 1), x \in S}

\* The series fetchHistoricalDataFromParquet hands to the simulator: an
\* empty one (file missing or unreadable), or WARMUP leading bars followed
\* by up to MaxBars further bars.  The loop never reads the leading bars.
WarmupBars == [k \in 1..WARMUP |-> 10]
SeriesSet ==
  {<<>>} \cup
  UNION {{WarmupBars \o t : t \in SeqsOver(Prices, n)} : n \in 0..MaxBars}

Close(series, k) == R(series[k + 1])

LastN(q, n) == IF Len(q) <= n THEN q ELSE SubSeq(q, Len(q) - n + 1, Len(q))

\* fullbacktest.js:95: the price window handed to the strategy
subPrices == LastN(prices, WINDOW)

dynamicRisk(entry, setup, atr) ==
  LET stopLoss == RMul(atr, StopFactor)
      takeProfit == RMul(atr, TargetFactor)
  IN  IF setup = "long"
      THEN [stop |-> RSub(entry, stopLoss), target |-> RAdd(entry, takeProfit)]
      ELSE [stop |-> RAdd(entry, stopLoss), target |-> RSub(entry, takeProfit)]

\* fullbacktest.js:101  if (tradeSignal && !investmentGone)
EntryIgnoringRuin(signal, gone) == signal # NULL
EntryAllowed(signal, gone) == signal # NULL /\ ~gone

\* fullbacktest.js:109 and 111: the size bought with risk fraction f
SizeOnRetainedCapital(f, bal, entry, stopDistance) ==
  LET riskAmount == RMax(RMul(bal, RSub(R(1), f)), R(MinRiskAmount))
  IN  RMin(RDiv(riskAmount, stopDistance), RDiv(bal, entry))
SizeFor(f, bal, entry, stopDistance) ==
  LET riskAmount == RMax(RMul(bal, f), R(MinRiskAmount))
  IN  RMin(RDiv(riskAmount, stopDistance), RDiv(bal, entry))

\* fullbacktest.js:109-111
PositionSizeUncapped(bal, entry, stop) ==
  LET stopDistance == RMax(RAbs(RSub(entry, stop)), Epsilon)
  IN  RDiv(RMax(RMul(bal, RiskFraction), R(MinRiskAmount)), stopDistance)
PositionSize(bal, entry, stop) ==
  LET stopDistance == RMax(RAbs(RSub(entry, stop)), Epsilon)
  IN  SizeFor(RiskFraction, bal, entry, stopDistance)

\* fullbacktest.js:135: the balance after the exit, from the balance left
\* after the debit of line 113
CreditProfitOnly(locked, size, entry, pl) == RAdd(locked, pl)
Credit(locked, size, entry, pl) == RAdd(locked, RAdd(RMul(size, entry), pl))

\* fullbacktest.js:124 / 129
ProfitLoss(pos, price) ==
  IF pos.signal = "long"
  THEN RMul(pos.size, RSub(price, pos.entry))
  ELSE RMul(pos.size, RSub(pos.entry, price))

\* fullbacktest.js:126 / 131: the three exit conditions of a scanned bar,
\* one by one
StopHit(pos, price) ==
  IF pos.signal = "long" THEN RLe(price, pos.stop) ELSE RLe(pos.stop, price)
LockHitAtTarget(pos, pl) ==
  RLe(RMul(RMul(pos.size, pos.atr), RAdd(TargetFactor, LockFactor)), pl)
LockHit(pos, pl) == RLe(RMul(RMul(pos.size, pos.atr), LockFactor), pl)
TargetHit(pos, price) ==
  IF pos.signal = "long" THEN RLe(pos.target, price) ELSE RLe(price, pos.target)

\* fullbacktest.js:126 / 131: the break condition
ExitHitNoLock(pos, price, pl) == StopHit(pos, price) \/ TargetHit(pos, price)
ExitHit(pos, price, pl) ==
  StopHit(pos, price) \/ LockHit(pos, pl) \/ TargetHit(pos, price)

\* fullbacktest.js:119-133: the forward scan of one trade, from bar j
RECURSIVE ForwardScan(_, _, _, _)
ForwardScan(series, pos, j, acc) ==
  IF j >= Min2(pos.index + HORIZON, Len(series)) THEN acc
  ELSE
    LET price == Close(series, j)
        pl == IF pos.signal = "long"
              THEN RMul(pos.size, RSub(price, pos.entry))
              ELSE RMul(pos.size, RSub(pos.entry, price))
        next == [duration |-> acc.duration + 1,
                 tradeLow |-> IF pos.signal = "long"
                              THEN RMin(acc.tradeLow, price) ELSE acc.tradeLow,
                 tradeHigh |-> IF pos.signal = "long"
                               THEN acc.tradeHigh ELSE RMax(acc.tradeHigh, price),
                 tradeProfitLoss |-> pl,
                 exitPrice |-> price]
    IN  IF ExitHit(pos, price, pl) THEN next
        ELSE ForwardScan(series, pos, j + 1, next)

\* fullbacktest.js:137-138
IsWinStrict(pl) == RLt(R(0), pl)
IsWin(pl) == RLe(R(0), pl)
TallyDropsFlat(w, l, pl) ==
  IF RLt(R(0), pl) THEN [wins |-> w + 1, losses |-> l]
  ELSE IF RLt(pl, R(0)) THEN [wins |-> w, losses |-> l + 1]
  ELSE [wins |-> w, losses |-> l]
Tally(w, l, pl) ==
  IF IsWin(pl) THEN [wins |-> w + 1, losses |-> l]
  ELSE [wins |-> w, losses |-> l + 1]

\* fullbacktest.js:141-149
RewardRisk(pos, scan) ==
  LET riskPct == IF pos.signal = "long"
                 THEN RDiv(RAbs(RSub(pos.entry, scan.tradeLow)), pos.entry)
                 ELSE RDiv(RAbs(RSub(scan.tradeHigh, pos.entry)), pos.entry)
      rewardPct == IF pos.signal = "long"
                   THEN RDiv(RAbs(RSub(scan.exitPrice, pos.entry)), pos.entry)
                   ELSE RDiv(RAbs(RSub(pos.entry, scan.exitPrice)), pos.entry)
  IN  RDiv(rewardPct, RMax(riskPct, Epsilon))

\* fullbacktest.js:154-165
WinRateVacuous(w, t) == IF t # 0 THEN RMul(RDiv(R(w), R(t)), R(100)) ELSE R(100)
WinRateExact(w, t) == IF t # 0 THEN RMul(RDiv(R(w), R(t)), R(100)) ELSE R(0)
BacktestResult(t, w, l, totDur, totRR) ==
  [trades |-> t, wins |-> w, losses |-> l,
   winRate |-> ToFixed2(WinRateExact(w, t)),
   avgDuration |-> IF t # 0 THEN ToFixed2(RDiv(R(totDur), R(t))) ELSE 0,
   avgRR |-> IF t # 0 THEN ToFixed2(RDiv(totRR, R(t))) ELSE 0]

\* fullbacktest.js:168
ZeroResult ==
  [trades |-> 0, wins |-> 0, losses |-> 0, winRate |-> 0,
   avgDuration |-> 0, avgRR |-> 0]

\* fullbacktest.js:166-169: what the catch of runBacktestFromParquet
\* returns when the counters stand at t, w, l, totDur, totRR
CatchKeepsCounters(t, w, l, totDur, totRR) ==
  BacktestResult(t, w, l, totDur, totRR)
CatchResult(t, w, l, totDur, totRR) == ZeroResult

\* ------------------------------------------------------------------------
\* Result store, per-symbol task and batch scheduler (fullbacktest.js)
\* ------------------------------------------------------------------------
dynamicDelay == 1200
concurrency == 2

\* fullbacktest.js:217 and the keys of tfMap (fullbacktest.js:36-42)
timeframes == <<"15Min", "1Hour", "4Hour", "1day", "1week">>
tfMapKeys == {"1day", "1week", "1hour", "4hour", "15Min"}
\* fullbacktest.js:36-42: tfMap, from a timeframe to its data directory
tfMap == [k \in tfMapKeys |-> IF k = "15Min" THEN "15min" ELSE k]
\* The directories Historical/data holds a series in for every symbol
\* (historicalDBBuilder.js:15, 129)
Directories == {"15min", "1hour", "4hour", "1day", "1week"}

\* fullbacktest.js:292-296: the registry, in readdirSync order
StrategyNames == <<"breakout", "meanrevert", "trend">>
Registries == {SubSeq(StrategyNames, 1, n) : n \in 0..MaxStrategies}

\* fullbacktest.js:304-312: the symbols of the CSV, then SPY when missing
CsvSymbols == SubSeq(<<"AAPL", "MSFT", "NVDA", "TSLA">>, 1, NumCsvSymbols)
Universe == Append(CsvSymbols, "SPY")
Range(q) == {q[n] : n \in DOMAIN q}

\* Results runBacktestFromParquet can return for a stored series
ResultSet ==
  {ZeroResult,
   BacktestResult(2, 1, 1, 4, R(2)),
   BacktestResult(1, 1, 0, 3, R(1))}

\* The series that can be fetched for a symbol: the timeframes of the loop
\* that are keys of tfMap (for the others path.join throws on undefined,
\* the catch of fetchHistoricalDataFromParquet returns []).
FetchableTimeframes == {t \in Range(timeframes) : t \in tfMapKeys}
FetchedDirectories == {tfMap[t] : t \in FetchableTimeframes}

\* fullbacktest.js:78-170 as seen by a task: the result for (symbol, tf,
\* strategy); an empty series leaves the bar loop unentered.
RunBacktestFromParquet(d, symbol, tf, name) ==
  IF tf \in DOMAIN tfMap THEN d[symbol][tfMap[tf]][name]
  ELSE BacktestResult(0, 0, 0, 0, R(0))

TRUNCATED == [valid |-> FALSE, content |-> <<>>]
NoSave == [status |-> "none"]

\* fullbacktest.js:221: the seed of the per-timeframe selection
SeedNullStrategy == [strategy |-> NULL, winRate |-> 0]
Seed == [strategy |-> "", winRate |-> 0]

\* fullbacktest.js:224-226
SelectBestLastTie(best, res, name) ==
  IF res.winRate >= best.winRate
  THEN [trades |-> res.trades, wins |-> res.wins, losses |-> res.losses,
        winRate |-> res.winRate, avgDuration |-> res.avgDuration,
        avgRR |-> res.avgRR, strategy |-> name]
  ELSE best
SelectBest(best, res, name) ==
  IF res.winRate > best.winRate
  THEN [trades |-> res.trades, wins |-> res.wins, losses |-> res.losses,
        winRate |-> res.winRate, avgDuration |-> res.avgDuration,
        avgRR |-> res.avgRR, strategy |-> name]
  ELSE best

RECURSIVE SumRates(_, _)
SumRates(tfr, n) ==
  IF n = 0 THEN 0 ELSE tfr[timeframes[n]].winRate + SumRates(tfr, n - 1)

\* fullbacktest.js:231-239 (win rates are in hundredths of a percent)
Output(symbol, tfr) ==
  [symbol |-> symbol, name |-> symbol,
   overallWinRate |-> (2 * SumRates(tfr, Len(timeframes)) + Len(timeframes))
                        \div (2 * Len(timeframes)),
   timeframes |-> tfr]

\* fullbacktest.js:174: allResults.findIndex(r => r.symbol === symbol), as a
\* 1-based position, 0 when no entry matches
FindIndexOfFirstEntry(all, symbol) == IF all = <<>> THEN 0 ELSE 1
FindIndex(all, symbol) ==
  LET S == {n \in 1..Len(all) : all[n].symbol = symbol}
  IN  IF S = {} THEN 0 ELSE CHOOSE n \in S : \A m \in S : n <= m

\* fullbacktest.js:175-182
NewEntry(symbol, res) ==
  [symbol |-> symbol, name |-> res.name,
   overallWinRate |-> res.overallWinRate, timeframes |-> res.timeframes,
   replaced |-> "new", retested |-> "yes"]

\* fullbacktest.js:173-192: the in-memory part of saveResult
UpsertAlwaysAppends(all, symbol, res) ==
  [all |-> Append(all, NewEntry(symbol, res)),
   status |-> IF FindIndex(all, symbol) > 0 THEN "yes" ELSE "new"]
Upsert(all, symbol, res) ==
  LET idx == FindIndex(all, symbol)
  IN  IF idx > 0
      THEN [all |-> [all EXCEPT ![idx] = NewEntry(symbol, res)],
            status |-> "yes"]
      ELSE [all |-> Append(all, NewEntry(symbol, res)), status |-> "new"]

\* fs.writeFileSync(resultsPath, ...): on success the file holds the whole
\* collection; a failing write throws and leaves the file as it was or
\* truncated.
WriteFile(old, content, ok, trunc) ==
  IF ok THEN [valid |-> TRUE, content |-> content]
  ELSE IF trunc THEN TRUNCATED ELSE old

\* The store as a record, so that several saves of one synchronous block
\* can be chained.
Store == [all |-> allResults, file |-> file, writeCount |-> writeCount,
          writeFailures |-> writeFailures, lastSave |-> lastSave]

\* fullbacktest.js:173-196: saveResult(symbol, result); ok says whether
\* writeFileSync succeeds
saveResultOnStartupCopy(st, symbol, res, ok, trunc) ==
  LET up == Upsert(file0, symbol, res)
  IN  [all |-> up.all,
       file |-> WriteFile(st.file, up.all, ok, trunc),
       writeCount |-> st.writeCount + 1,
       writeFailures |-> st.writeFailures + (IF ok THEN 0 ELSE 1),
       lastSave |-> [symbol |-> symbol, result |-> res, before |-> st.all,
                     after |-> up.all, fileAfter |-> WriteFile(st.file, up.all, ok, trunc),
                     writesBefore |-> st.writeCount,
                     writesAfter |-> st.writeCount + 1,
                     status |-> IF ok THEN up.status ELSE "threw"]]
saveResult(st, symbol, res, ok, trunc) ==
  LET up == Upsert(st.all, symbol, res)
  IN  [all |-> up.all,
       file |-> WriteFile(st.file, up.all, ok, trunc),
       writeCount |-> st.writeCount + 1,
       writeFailures |-> st.writeFailures + (IF ok THEN 0 ELSE 1),
       lastSave |-> [symbol |-> symbol, result |-> res, before |-> st.all,
                     after |-> up.all, fileAfter |-> WriteFile(st.file, up.all, ok, trunc),
                     writesBefore |-> st.writeCount,
                     writesAfter |-> st.writeCount + 1,
                     status |-> IF ok THEN up.status ELSE "threw"]]

IdleTask == [st |-> "idle", tf |-> 0, k |-> 0, bestForTF |-> Seed,
             timeframeResults |-> <<>>]

Extend(f, key, val) ==
  [x \in DOMAIN f \cup {key} |-> IF x = key THEN val ELSE f[x]]

\* A stable sort by overallWinRate descending (fullbacktest.js:285)
RECURSIVE InsertDesc(_, _)
InsertDesc(sorted, e) ==
  IF sorted = <<>> THEN <<e>>
  ELSE IF Head(sorted).overallWinRate >= e.overallWinRate
       THEN <<Head(sorted)>> \o InsertDesc(Tail(sorted), e)
       ELSE <<e>> \o sorted
SortKeepsOrder(q) == q
RECURSIVE SortDesc(_)
SortDesc(q) ==
  IF q = <<>> THEN <<>>
  ELSE InsertDesc(SortDesc(SubSeq(q, 1, Len(q) - 1)), q[Len(q)])

\* fullbacktest.js:249
FilterNothing(q, skip) == q
RECURSIVE FilterSeq(_, _)
FilterSeq(q, skip) ==
  IF q = <<>> THEN <<>>
  ELSE IF Head(q) \in skip THEN FilterSeq(Tail(q), skip)
       ELSE <<Head(q)>> \o FilterSeq(Tail(q), skip)

\* fullbacktest.js:259-263: the batch of one round
RECURSIVE TakeBatchUnbounded(_, _, _, _)
TakeBatchUnbounded(b, rq, ts, width) ==
  IF Len(ts) > 0 \/ Len(rq) > 0
  THEN IF Len(rq) > 0
       THEN TakeBatchUnbounded(Append(b, Head(rq)), Tail(rq), ts, width)
       ELSE TakeBatchUnbounded(Append(b, Head(ts)), rq, Tail(ts), width)
  ELSE [batch |-> b, retryQueue |-> rq, tradableStocks |-> ts]
RECURSIVE TakeBatch(_, _, _, _)
TakeBatch(b, rq, ts, width) ==
  IF Len(b) < width /\ (Len(ts) > 0 \/ Len(rq) > 0)
  THEN IF Len(rq) > 0
       THEN TakeBatch(Append(b, Head(rq)), Tail(rq), ts, width)
       ELSE TakeBatch(Append(b, Head(ts)), rq, Tail(ts), width)
  ELSE [batch |-> b, retryQueue |-> rq, tradableStocks |-> ts]

\* Entries a results.json left by earlier runs can hold
OldEntry(symbol, flag) ==
  [symbol |-> symbol, name |-> "legacy", overallWinRate |-> 1000,
   timeframes |-> <<>>, replaced |-> "new", retested |-> flag]
OldEntries == {OldEntry(s, f) : s \in Range(Universe), f \in {"yes", "no"}}
IndexIn(q, x) == CHOOSE n \in DOMAIN q : q[n] = x
\* at most one entry per symbol, in the order of the symbol list
Collections ==
  {q \in UNION {SeqsOver(OldEntries, n) : n \in 0..MaxStored} :
     \A a, b \in DOMAIN q :
       a < b => IndexIn(Universe, q[a].symbol) < IndexIn(Universe, q[b].symbol)}

\* fullbacktest.js:20-22
RetestedSymbols(all) == {all[n].symbol : n \in {m \in DOMAIN all : all[m].retested = "yes"}}

InFlightStates == {"running", "stuck", "resolved", "rejected"}
InFlight == {s \in Range(Universe) : task[s].st \in InFlightStates}
Stuck == {s \in Range(Universe) : task[s].st = "stuck"}

\* fullbacktest.js:216-245 from the call up to the first await: with a
\* non-empty registry the task suspends in its first runBacktestFromParquet.
StartedTask == [st |-> "running", tf |-> 1, k |-> 1, bestForTF |-> Seed,
                timeframeResults |-> <<>>]

SeedResults == [t \in Range(timeframes) |-> Seed]

\* Start the tasks of the batch from position n on, in order and without
\* suspension (fullbacktest.js:265-279).  With an empty registry a task
\* runs through saveResult before the next one is created.
RECURSIVE StartTasks(_, _, _, _, _, _)
StartTasks(b, n, st, tk, oks, truncs) ==
  IF n > Len(b) THEN [store |-> st, task |-> tk]
  ELSE IF strategies # <<>>
       THEN StartTasks(b, n + 1, st, [tk EXCEPT ![b[n]] = StartedTask],
                       oks, truncs)
       ELSE LET sv == saveResult(st, b[n], Output(b[n], SeedResults),
                                 oks[n], truncs[n])
            IN  StartTasks(b, n + 1, sv,
                  [tk EXCEPT ![b[n]] =
                     [st |-> IF oks[n] THEN "resolved" ELSE "rejected",
                      tf |-> Len(timeframes), k |-> 0, bestForTF |-> Seed,
                      timeframeResults |-> SeedResults]],
                  oks, truncs)

FailuresIn(oks, n) == Cardinality({m \in 1..n : ~oks[m]})

\* fullbacktest.js:257-287 from the top of the while loop to the next
\* await: either a round is dispatched, or the loop is left and the
\* collection is sorted and written once more.
LoopTop(ts, rq) ==
  IF Len(ts) > 0 \/ Len(rq) > 0
  THEN LET tb == TakeBatch(<<>>, rq, ts, concurrency)
       IN  \E oks \in [1..Len(tb.batch) -> BOOLEAN],
              truncs \in [1..Len(tb.batch) -> BOOLEAN] :
             /\ strategies # <<>> =>
                  /\ \A n \in DOMAIN oks : oks[n]
                  /\ \A n \in DOMAIN truncs : ~truncs[n]
             /\ \A n \in DOMAIN oks : oks[n] => ~truncs[n]
             /\ writeFailures + FailuresIn(oks, Len(tb.batch)) <= MaxWriteFailures
             /\ LET r == StartTasks(tb.batch, 1, Store, task, oks, truncs)
                IN  /\ task' = r.task
                    /\ allResults' = r.store.all
                    /\ file' = r.store.file
                    /\ writeCount' = r.store.writeCount
                    /\ writeFailures' = r.store.writeFailures
                    /\ lastSave' = r.store.lastSave
             /\ batch' = tb.batch
             /\ retryQueue' = tb.retryQueue
             /\ tradableStocks' = tb.tradableStocks
             /\ dispatchLog' = dispatchLog \o tb.batch
             /\ schedPc' = "awaitAll"
  ELSE \E ok \in BOOLEAN, trunc \in BOOLEAN :
         /\ ok => ~trunc
         /\ ~ok => writeFailures < MaxWriteFailures
         /\ allResults' = SortDesc(allResults)
         /\ file' = WriteFile(file, SortDesc(allResults), ok, trunc)
         /\ writeCount' = writeCount + 1
         /\ writeFailures' = writeFailures + (IF ok THEN 0 ELSE 1)
         /\ schedPc' = IF ok THEN "done" ELSE "fatal"
         /\ tradableStocks' = ts
         /\ retryQueue' = rq
         /\ UNCHANGED <<batch, task, lastSave, dispatchLog>>

SchedInitWith(reg, d, coll) ==
  /\ strategies = reg
  /\ data = d
  /\ file0 = coll
  /\ allResults = coll
  /\ file = [valid |-> TRUE, content |-> coll]
  /\ alreadyRetestedSymbols = RetestedSymbols(coll)
  /\ tradableStocks = Universe
  /\ retryQueue = <<>>
  /\ totalStocks = 0
  /\ processedCount = 0
  /\ schedPc = "main"
  /\ batch = <<>>
  /\ task = [s \in Range(Universe) |-> IdleTask]
  /\ writeCount = 0
  /\ writeFailures = 0
  /\ lastSave = NoSave
  /\ failedLog = {}
  /\ dispatchLog = <<>>

\* runConcurrentBacktests is called (fullbacktest.js:248-255) and runs to
\* its first await.
RunStart ==
  /\ schedPc = "main"
  /\ totalStocks' = Len(FilterSeq(tradableStocks, alreadyRetestedSymbols))
                      + Len(retryQueue)
  /\ processedCount' = 0
  /\ LoopTop(FilterSeq(tradableStocks, alreadyRetestedSymbols), retryQueue)
  /\ UNCHANGED <<strategies, data, file0, alreadyRetestedSymbols, failedLog>>
  /\ UNCHANGED besidesSched

\* A task resumes from `await runBacktestFromParquet` with the result for
\* its current (timeframe, strategy) (fullbacktest.js:223-245).
TaskStep(s) ==
  /\ task[s].st = "running"
  /\ LET t == task[s]
         tf == timeframes[t.tf]
         name == strategies[t.k]
         res == RunBacktestFromParquet(data, s, tf, name)
         best == SelectBest(t.bestForTF, res, name)
     IN  IF t.k < Len(strategies)
         THEN /\ task' = [task EXCEPT ![s].k = t.k + 1, ![s].bestForTF = best]
              /\ UNCHANGED <<allResults, file, writeCount, writeFailures,
                             lastSave>>
         ELSE IF t.tf < Len(timeframes)
         THEN /\ task' = [task EXCEPT
                            ![s].tf = t.tf + 1, ![s].k = 1,
                            ![s].bestForTF = Seed,
                            ![s].timeframeResults =
                               Extend(t.timeframeResults, tf, best)]
              /\ UNCHANGED <<allResults, file, writeCount, writeFailures,
                             lastSave>>
         ELSE \E ok \in BOOLEAN, trunc \in BOOLEAN :
                /\ ok => ~trunc
                /\ ~ok => writeFailures < MaxWriteFailures
                /\ LET tfr == Extend(t.timeframeResults, tf, best)
                       sv == saveResult(Store, s, Output(s, tfr), ok, trunc)
                   IN  /\ task' = [task EXCEPT
                                     ![s].st = IF ok THEN "resolved"
                                               ELSE "rejected",
                                     ![s].bestForTF = best,
                                     ![s].timeframeResults = tfr]
                       /\ allResults' = sv.all
                       /\ file' = sv.file
                       /\ writeCount' = sv.writeCount
                       /\ writeFailures' = sv.writeFailures
                       /\ lastSave' = sv.lastSave
  /\ UNCHANGED <<strategies, data, file0, alreadyRetestedSymbols,
                 tradableStocks, retryQueue, totalStocks, processedCount,
                 schedPc, batch, failedLog, dispatchLog>>
  /\ UNCHANGED besidesSched

\* The external call a task awaits never calls back.
TaskHang(s) ==
  /\ task[s].st = "running"
  /\ task' = [task EXCEPT ![s].st = "stuck"]
  /\ UNCHANGED <<strategies, data, file0, allResults, file,
                 alreadyRetestedSymbols, tradableStocks, retryQueue,
                 totalStocks, processedCount, schedPc, batch, writeCount,
                 writeFailures, lastSave, failedLog, dispatchLog>>
  /\ UNCHANGED besidesSched

\* The .then callback of a fulfilled task (fullbacktest.js:267-274)
TaskThen(s) ==
  /\ task[s].st = "resolved"
  /\ processedCount' = processedCount + 1
  /\ task' = [task EXCEPT ![s].st = "done"]
  /\ UNCHANGED <<strategies, data, file0, allResults, file,
                 alreadyRetestedSymbols, tradableStocks, retryQueue,
                 totalStocks, schedPc, batch, writeCount, writeFailures,
                 lastSave, failedLog, dispatchLog>>
  /\ UNCHANGED besidesSched

\* The .catch callback of a rejected task (fullbacktest.js:275-277)
TaskCatchRequeues(s) ==
  /\ task[s].st = "rejected"
  /\ failedLog' = failedLog \cup {s}
  /\ retryQueue' = Append(retryQueue, s)
  /\ task' = [task EXCEPT ![s].st = "failed"]
  /\ UNCHANGED <<strategies, data, file0, allResults, file,
                 alreadyRetestedSymbols, tradableStocks,
                 totalStocks, processedCount, schedPc, batch, writeCount,
                 writeFailures, lastSave, dispatchLog>>
  /\ UNCHANGED besidesSched
TaskCatch(s) ==
  /\ task[s].st = "rejected"
  /\ failedLog' = failedLog \cup {s}
  /\ task' = [task EXCEPT ![s].st = "failed"]
  /\ UNCHANGED <<strategies, data, file0, allResults, file,
                 alreadyRetestedSymbols, tradableStocks, retryQueue,
                 totalStocks, processedCount, schedPc, batch, writeCount,
                 writeFailures, lastSave, dispatchLog>>
  /\ UNCHANGED besidesSched

\* Promise.all(active) is fulfilled once every task of the round has
\* settled (fullbacktest.js:281); the sleep timer is then armed.
AllSettledAny(b) == \E n \in DOMAIN b : task[b[n]].st \in {"done", "failed"}
AllSettled(b) == \A n \in DOMAIN b : task[b[n]].st \in {"done", "failed"}

AwaitAll ==
  /\ schedPc = "awaitAll"
  /\ AllSettled(batch)
  /\ schedPc' = "sleep"
  /\ UNCHANGED <<strategies, data, file0, allResults, file,
                 alreadyRetestedSymbols, tradableStocks, retryQueue,
                 totalStocks, processedCount, batch, task, writeCount,
                 writeFailures, lastSave, failedLog, dispatchLog>>
  /\ UNCHANGED besidesSched

\* The inter-round delay has elapsed (fullbacktest.js:282): back to the
\* top of the loop.
AfterSleep ==
  /\ schedPc = "sleep"
  /\ LoopTop(tradableStocks, retryQueue)
  /\ UNCHANGED <<strategies, data, file0, alreadyRetestedSymbols,
                 totalStocks, processedCount, failedLog>>
  /\ UNCHANGED besidesSched

TaskNext ==
  \E s \in Range(Universe) :
    TaskStep(s) \/ TaskHang(s) \/ TaskThen(s) \/ TaskCatch(s)

SchedNext == RunStart \/ TaskNext \/ AwaitAll \/ AfterSleep

SimInitWith(series) ==
  /\ lower = series
  /\ simPc = "loop"
  /\ i = WARMUP
  /\ prices = <<>>
  /\ trades = 0 /\ wins = 0 /\ losses = 0
  /\ totalDuration = 0 /\ totalRR = R(0)
  /\ lastTradeIndex = NoLastTrade
  /\ balance = R(StartBalance)
  /\ investmentGone = FALSE
  /\ tradeSignal = NULL
  /\ tradeLog = <<>>
  /\ result = NULL
  /\ calls = 0
  /\ caught = FALSE

\* No pure computation checked, morning sequence not started
NoCall == [kind |-> "none"]
PureIdle == fnIn = NoCall /\ fnOut = NoCall
NoCounts == [successes |-> 0, failures |-> 0, retries |-> 0]
PrepIdle ==
  /\ prepPc = "idle"
  /\ prepScript = 0
  /\ prepAttempt = 0
  /\ prepLog = <<>>
  /\ prepResults = NoCounts

\* The historical updater not started: no stored series, no progress file
HistSymbols == <<"AAPL">>
TIMEFRAMES == <<"15min", "1hour", "4hour", "1day", "1week">>
Pairs == {<<HistSymbols[a], TIMEFRAMES[b]>> :
            a \in DOMAIN HistSymbols, b \in DOMAIN TIMEFRAMES}
HistIdle ==
  /\ histPc = "idle"
  /\ histRun = 0
  /\ today = 0
  /\ stored = [k \in Pairs |-> 0]
  /\ storedAtStart = [k \in Pairs |-> 0]
  /\ progress = {}
  /\ tasks = <<>>
  /\ index = 0
  /\ activeDownloads = {}
  /\ fetched = {}

SimInit ==
  /\ \E series \in SeriesSet : SimInitWith(series)
  /\ SchedInitWith(<<>>, <<>>, <<>>)
  /\ PureIdle /\ PrepIdle /\ HistIdle

\* One iteration of the bar loop (fullbacktest.js:90-152) in which the
\* strategy returns sig (null, or a long/short signal); atrNow is the
\* value of ATR(subCandles), used only on entry.
SimBar(sig, atrNow) ==
  /\ simPc = "loop"
  /\ i < Len(lower)
  /\ prices' = Append(prices, lower[i + 1])
  /\ tradeSignal' = sig
  /\ calls' = calls + 1
  /\ i' = i + 1
  /\ IF EntryAllowed(sig, investmentGone)
     THEN
       LET entry == Close(lower, i)
           risk == dynamicRisk(entry, sig, atrNow)
           positionSize == PositionSize(balance, entry, risk.stop)
           locked == RSub(balance, RMul(positionSize, entry))
           pos == [signal |-> sig, index |-> i, entry |-> entry,
                   stop |-> risk.stop, target |-> risk.target,
                   size |-> positionSize, atr |-> atrNow]
           scan == ForwardScan(lower, pos, i + 1,
                     [duration |-> 0, tradeLow |-> entry, tradeHigh |-> entry,
                      tradeProfitLoss |-> R(0), exitPrice |-> entry])
           after == Credit(locked, positionSize, entry, scan.tradeProfitLoss)
       IN  /\ lastTradeIndex' = i
           /\ trades' = trades + 1
           /\ totalDuration' = totalDuration + scan.duration
           /\ wins' = Tally(wins, losses, scan.tradeProfitLoss).wins
           /\ losses' = Tally(wins, losses, scan.tradeProfitLoss).losses
           /\ investmentGone' = RLe(after, R(0))
           /\ balance' = IF RLe(after, R(0)) THEN R(0) ELSE after
           /\ totalRR' = RAdd(totalRR, RewardRisk(pos, scan))
           /\ tradeLog' = Append(tradeLog,
                [entryBar |-> i, exitBar |-> i + scan.duration,
                 signal |-> sig, size |-> positionSize,
                 entry |-> entry, atr |-> atrNow, target |-> risk.target,
                 exitPrice |-> scan.exitPrice,
                 profitLoss |-> scan.tradeProfitLoss,
                 balanceBefore |-> balance, balanceAfter |-> after,
                 balance |-> IF RLe(after, R(0)) THEN R(0) ELSE after])
     ELSE UNCHANGED <<lastTradeIndex, trades, totalDuration, wins, losses,
                      investmentGone, balance, totalRR, tradeLog>>
  /\ UNCHANGED <<lower, simPc, result, caught>>
  /\ UNCHANGED besidesSim

\* The loop ends (fullbacktest.js:154-165): the result is returned.
SimReturn ==
  /\ simPc = "loop"
  /\ i >= Len(lower)
  /\ result' = BacktestResult(trades, wins, losses, totalDuration, totalRR)
  /\ simPc' = "done"
  /\ UNCHANGED <<lower, i, prices, trades, wins, losses, totalDuration,
                 totalRR, lastTradeIndex, balance, investmentGone,
                 tradeSignal, tradeLog, calls, caught>>
  /\ UNCHANGED besidesSim

\* The strategy function throws at bar i (fullbacktest.js:99, 166-169).
SimThrow ==
  /\ simPc = "loop"
  /\ i < Len(lower)
  /\ prices' = Append(prices, lower[i + 1])
  /\ calls' = calls + 1
  /\ caught' = TRUE
  /\ result' = CatchResult(trades, wins, losses, totalDuration, totalRR)
  /\ simPc' = "done"
  /\ UNCHANGED <<lower, i, trades, wins, losses, totalDuration, totalRR,
                 lastTradeIndex, balance, investmentGone, tradeSignal,
                 tradeLog>>
  /\ UNCHANGED besidesSim

SimStep == \E sig \in Signals \cup {NULL}, atrNow \in AtrValues : SimBar(sig, atrNow)

SimNext == SimStep \/ SimReturn \/ SimThrow

SimSpec == SimInit /\ [][SimNext]_vars

\* ------------------------------------------------------------------------
\* The simulator on a rising series with a strategy that signals once
\* ------------------------------------------------------------------------
RisingBars == 13

\* Series whose closes rise strictly from bar to bar: the leading bars rise
\* by one, the later bars by d1 up to a kink and by d2 after it.
RisingSteps == {1, 2, 3}
RisingSeries(n, d1, d2, kink) ==
  [k \in 1..(WARMUP + n) |->
     IF k <= WARMUP THEN k
     ELSE WARMUP + d1 * Min2(k - WARMUP, kink)
                 + d2 * (k - WARMUP - Min2(k - WARMUP, kink))]
RisingSeriesSet ==
  {RisingSeries(n, d1, d2, kink) :
     n \in 1..RisingBars, d1 \in RisingSteps, d2 \in RisingSteps,
     kink \in 0..RisingBars}

\* Values of ATR(subCandles) on such a series (positive)
RisingAtr == {R(1), R(10), R(100)}

\* The strategy: a long signal at the first bar it is asked about, null at
\* every later bar.
LongOnFirstBar == IF calls = 0 THEN "long" ELSE NULL

RisingInit ==
  /\ \E series \in RisingSeriesSet : SimInitWith(series)
  /\ SchedInitWith(<<>>, <<>>, <<>>)
  /\ PureIdle /\ PrepIdle /\ HistIdle

RisingStep == \E atrNow \in RisingAtr : SimBar(LongOnFirstBar, atrNow)

RisingNext == RisingStep \/ SimReturn

RisingSpec == RisingInit /\ [][RisingNext]_vars

\* ------------------------------------------------------------------------
\* The position size computed at entry, on its own
\* ------------------------------------------------------------------------
MaxBalance == 4

\* Risk fractions, balances (in units of 50), entry prices and stop
\* distances the size is computed for
Fractions == {<<1, 20>>, <<3, 20>>, <<1, 2>>, <<1, 1>>}
Balances == {R(50 * b) : b \in 1..MaxBalance}
StopDistances == {Epsilon, <<7, 10>>, R(7)}

SizeInputs ==
  {[kind |-> "size", f1 |-> f1, f2 |-> f2, bal |-> bal, entry |-> R(entry),
    stopDistance |-> sd] :
     f1 \in Fractions, f2 \in Fractions, bal \in Balances,
     entry \in Prices, sd \in StopDistances}

SizeInit ==
  /\ \E in \in SizeInputs : RLe(in.f1, in.f2) /\ fnIn = in
  /\ fnOut = NoCall
  /\ SimInitWith(<<>>)
  /\ SchedInitWith(<<>>, <<>>, <<>>)
  /\ PrepIdle /\ HistIdle

\* The size is computed for the smaller and for the larger fraction.
ComputeSize ==
  /\ fnIn.kind = "size"
  /\ fnOut.kind = "none"
  /\ fnOut' = [kind |-> "size",
               lo |-> SizeFor(fnIn.f1, fnIn.bal, fnIn.entry, fnIn.stopDistance),
               hi |-> SizeFor(fnIn.f2, fnIn.bal, fnIn.entry, fnIn.stopDistance)]
  /\ UNCHANGED <<fnIn, simVars, schedVars, prepVars, histVars>>

SizeSpec == SizeInit /\ [][ComputeSize]_vars

\* ------------------------------------------------------------------------
\* The exit conditions of one scanned bar, on their own
\* ------------------------------------------------------------------------
MaxClose == 32

\* ATR values and closes of the scanned bar the conditions are evaluated for
ExitAtr == {R(0), R(1), R(5), R(10)}
ScannedCloses == 1..MaxClose

ExitInputs ==
  {[kind |-> "exit", signal |-> sig, bal |-> bal, entry |-> R(entry),
    atr |-> atr, price |-> R(price)] :
     sig \in Signals, bal \in Balances, entry \in Prices, atr \in ExitAtr,
     price \in ScannedCloses}

ExitInit ==
  /\ fnIn \in ExitInputs
  /\ fnOut = NoCall
  /\ SimInitWith(<<>>)
  /\ SchedInitWith(<<>>, <<>>, <<>>)
  /\ PrepIdle /\ HistIdle

\* fullbacktest.js:103-111: the position as it is opened
OpenPosition(sig, bal, entry, atr) ==
  LET risk == dynamicRisk(entry, sig, atr)
  IN  [signal |-> sig, entry |-> entry, atr |-> atr, stop |-> risk.stop,
       target |-> risk.target, size |-> PositionSize(bal, entry, risk.stop)]

\* One pass of the scan loop body over the bar.
EvalExit ==
  /\ fnIn.kind = "exit"
  /\ fnOut.kind = "none"
  /\ LET pos == OpenPosition(fnIn.signal, fnIn.bal, fnIn.entry, fnIn.atr)
         pl == ProfitLoss(pos, fnIn.price)
     IN  fnOut' = [kind |-> "exit",
                   size |-> pos.size,
                   tradeProfitLoss |-> pl,
                   stopHit |-> StopHit(pos, fnIn.price),
                   lockHit |-> LockHit(pos, pl),
                   targetHit |-> TargetHit(pos, fnIn.price),
                   break |-> ExitHit(pos, fnIn.price, pl)]
  /\ UNCHANGED <<fnIn, simVars, schedVars, prepVars, histVars>>

ExitSpec == ExitInit /\ [][EvalExit]_vars

\* ------------------------------------------------------------------------
\* The consumers of results.json (stock_strat_test/strat_test.js,
\* stock_strat_test/stockmonitor.js)
\* ------------------------------------------------------------------------
UNDEFINED == "undefined"
Falsy(v) == v \in {UNDEFINED, NULL, ""}

\* r[f] of a parsed JSON object: undefined for a property it does not have
Field(r, f) == IF f \in DOMAIN r THEN r[f] ELSE UNDEFINED

LastOf(results, symbol) ==
  CHOOSE n \in DOMAIN results :
    /\ results[n].symbol = symbol
    /\ \A m \in DOMAIN results : results[m].symbol = symbol => m <= n

\* strat_test.js:40-46: results.forEach(r => strategies[r.symbol] = r.strategy)
loadStrategies(results) ==
  [s \in {results[n].symbol : n \in DOMAIN results} |->
     Field(results[LastOf(results, s)], "strategy")]

\* stockmonitor.js:22-28, the same loop
loadHighestWinRateStrategies(results) ==
  [s \in {results[n].symbol : n \in DOMAIN results} |->
     Field(results[LastOf(results, s)], "strategy")]

\* strategies[symbol] || null (strat_test.js:172, stockmonitor.js:135)
OrNull(strats, symbol) ==
  IF symbol \in DOMAIN strats /\ ~Falsy(strats[symbol])
  THEN strats[symbol] ELSE NULL

\* strat_test.js:89: evaluateStrategy returns null at once for a falsy
\* strategy; otherwise it goes on to the candles and may build an alert.
evaluateStrategy(strategy) ==
  IF Falsy(strategy) THEN "no alert" ELSE "alert possible"

\* ------------------------------------------------------------------------
\* The morning sequence of the master scheduler (scheduler/scheduler.js)
\* ------------------------------------------------------------------------
MaxExitCode == 2

\* scheduler.js:107-111: the scripts of morningPrep, in order, each run
\* with retries = 1
Scripts == <<"HistoricalDBBuilder", "UpdateOptionableList", "FullBacktest">>
Retries == 1

\* Exit codes of a child process
ExitCodes == 0..MaxExitCode

\* Entries of the log: a child process was started (scheduler.js:56-59),
\* a child process exited (scheduler.js:64-82)
StartEvent(script, attemptNum) ==
  [ev |-> "start", script |-> script, attempt |-> attemptNum, code |-> 0]
ExitEvent(script, attemptNum, code) ==
  [ev |-> "exit", script |-> script, attempt |-> attemptNum, code |-> code]

\* scheduler.js:66-98: what runScript does when the child of attempt
\* attemptNum exits with code: it returns, it starts another attempt, or
\* it throws to its caller.
AfterExitIgnoresFailure(code, attemptNum) ==
  IF code = 0 THEN "return"
  ELSE IF attemptNum - 1 < Retries THEN "retry" ELSE "return"
AfterExit(code, attemptNum) ==
  IF code = 0 THEN "return"
  ELSE IF attemptNum - 1 < Retries THEN "retry" ELSE "throw"

PrepInit ==
  /\ PrepIdle
  /\ PureIdle
  /\ HistIdle
  /\ SimInitWith(<<>>)
  /\ SchedInitWith(<<>>, <<>>, <<>>)

\* The 4:00 job calls morningPrep (scheduler.js:149-152, 102-107): the
\* first attempt of the first script is started.
morningPrep ==
  /\ prepPc = "idle"
  /\ prepPc' = "attempt"
  /\ prepScript' = 1
  /\ prepAttempt' = 1
  /\ prepResults' = NoCounts
  /\ prepLog' = Append(prepLog, StartEvent(Scripts[1], 1))
  /\ UNCHANGED <<simVars, schedVars, pureVars, histVars>>

\* The child process of the running attempt exits with code: the exit
\* handler settles the promise of the attempt (scheduler.js:64-82), runScript
\* resumes (86-98), and when it returns or throws morningPrep resumes
\* (107-120) up to its next await or to its end.
OnExit(code) ==
  /\ prepPc = "attempt"
  /\ LET exited == Append(prepLog,
                     ExitEvent(Scripts[prepScript], prepAttempt, code))
         then == AfterExit(code, prepAttempt)
     IN  IF then = "retry"
         THEN /\ prepAttempt' = prepAttempt + 1
              /\ prepLog' = Append(exited,
                              StartEvent(Scripts[prepScript], prepAttempt + 1))
              /\ UNCHANGED <<prepPc, prepScript, prepResults>>
         ELSE IF then = "throw"
         THEN /\ prepResults' = [prepResults EXCEPT !.failures = @ + 1]
              /\ prepLog' = exited
              /\ prepPc' = "finished"
              /\ UNCHANGED <<prepScript, prepAttempt>>
         ELSE IF prepScript < Len(Scripts)
         THEN /\ prepResults' = [prepResults EXCEPT !.successes = @ + 1]
              /\ prepScript' = prepScript + 1
              /\ prepAttempt' = 1
              /\ prepLog' = Append(exited,
                              StartEvent(Scripts[prepScript + 1], 1))
              /\ UNCHANGED prepPc
         ELSE /\ prepResults' = [prepResults EXCEPT !.successes = @ + 1]
              /\ prepLog' = exited
              /\ prepPc' = "finished"
              /\ UNCHANGED <<prepScript, prepAttempt>>
  /\ UNCHANGED <<simVars, schedVars, pureVars, histVars>>

ChildExit == \E code \in ExitCodes : OnExit(code)

PrepNext == morningPrep \/ ChildExit

PrepSpec == PrepInit /\ [][PrepNext]_vars

\* ------------------------------------------------------------------------
\* The historical updater (Historical/historicalDBBuilder.js).  Dates
\* are day numbers; stored[k] is the day of the last row of the parquet
\* file of pair k, 0 when the file does not exist; progress is the set of
\* keys that progress.json marks completed.
\* ------------------------------------------------------------------------
MaxRuns == 2

\* historicalDBBuilder.js:20: the smallest pool Math.max(4, cpus * 2) gives
MAX_CONCURRENT_DOWNLOADS == 4
\* historicalDBBuilder.js:256: one year back
Year == 365
\* the day of the first run
FirstDay == 400

\* historicalDBBuilder.js:242-243: the pairs in the order of the two loops
PairSeq ==
  [n \in 1..(Len(HistSymbols) * Len(TIMEFRAMES)) |->
     <<HistSymbols[((n - 1) \div Len(TIMEFRAMES)) + 1],
       TIMEFRAMES[((n - 1) % Len(TIMEFRAMES)) + 1]>>]

\* historicalDBBuilder.js:247-259
FromDate(last, day) ==
  IF last > 0 THEN Min2(last + 1, day) ELSE day - Year

\* historicalDBBuilder.js:242-267: the tasks of a run; a pair whose key is
\* marked in progress.completed gets none
RECURSIVE BuildTasks(_, _, _, _)
BuildTasks(n, st, done, day) ==
  IF n > Len(PairSeq) THEN <<>>
  ELSE IF PairSeq[n] \in done THEN BuildTasks(n + 1, st, done, day)
       ELSE <<[key |-> PairSeq[n], from |-> FromDate(st[PairSeq[n]], day),
               to |-> day]>> \o BuildTasks(n + 1, st, done, day)

HistInit ==
  /\ histPc = "start"
  /\ histRun = 0
  /\ today = FirstDay
  /\ stored = [k \in Pairs |-> 0]
  /\ storedAtStart = [k \in Pairs |-> 0]
  /\ progress = {}
  /\ tasks = <<>>
  /\ index = 0
  /\ activeDownloads = {}
  /\ fetched = {}
  /\ PureIdle /\ PrepIdle
  /\ SimInitWith(<<>>)
  /\ SchedInitWith(<<>>, <<>>, <<>>)

\* main (historicalDBBuilder.js:226-271): progress.json is loaded, the
\* tasks are built and runDownloadQueue starts the first
\* MAX_CONCURRENT_DOWNLOADS of them (167-203), each up to its fetch.
HistMain ==
  /\ histPc = "start"
  /\ histRun' = histRun + 1
  /\ storedAtStart' = stored
  /\ LET ts == BuildTasks(1, stored, progress, today)
         n == Min2(MAX_CONCURRENT_DOWNLOADS, Len(ts))
     IN  /\ tasks' = ts
         /\ index' = n
         /\ activeDownloads' = {ts[m].key : m \in 1..n}
         /\ fetched' = {ts[m] : m \in 1..n}
         /\ histPc' = IF n = 0 THEN "exited" ELSE "downloading"
  /\ UNCHANGED <<today, stored, progress>>
  /\ UNCHANGED <<simVars, schedVars, pureVars, prepVars>>

\* The download of pair k comes back (historicalDBBuilder.js:183-200):
\* with no rows (the API failed or had nothing), or with rows up to day
\* last, which are appended and the key marked completed; then startNext
\* starts the next task, or main resumes and the process ends (271-274).
TaskDone(k, last) ==
  /\ histPc = "downloading"
  /\ k \in activeDownloads
  /\ LET t == CHOOSE x \in fetched : x.key = k
         saved == last > 0
     IN  /\ saved => t.from <= last /\ last <= t.to
         /\ stored' = IF saved THEN [stored EXCEPT ![k] = last] ELSE stored
         /\ progress' = IF saved THEN progress \cup {k} ELSE progress
  /\ IF index < Len(tasks)
     THEN /\ index' = index + 1
          /\ activeDownloads' =
               (activeDownloads \ {k}) \cup {tasks[index + 1].key}
          /\ fetched' = fetched \cup {tasks[index + 1]}
          /\ UNCHANGED histPc
     ELSE /\ activeDownloads' = activeDownloads \ {k}
          /\ histPc' = IF activeDownloads = {k} THEN "exited"
                       ELSE "downloading"
          /\ UNCHANGED <<index, fetched>>
  /\ UNCHANGED <<histRun, today, storedAtStart, tasks>>
  /\ UNCHANGED <<simVars, schedVars, pureVars, prepVars>>

Download ==
  \E k \in Pairs : \E last \in {0, today - 1, today} : TaskDone(k, last)

\* The scheduler starts the script again on the next day.
NextDay ==
  /\ histPc = "exited"
  /\ histRun < MaxRuns
  /\ today' = today + 1
  /\ histPc' = "start"
  /\ UNCHANGED <<histRun, stored, storedAtStart, progress, tasks, index,
                 activeDownloads, fetched>>
  /\ UNCHANGED <<simVars, schedVars, pureVars, prepVars>>

HistNext == HistMain \/ Download \/ NextDay

HistSpec == HistInit /\ [][HistNext]_vars

\* ------------------------------------------------------------------------
\* The simulator on short series whose closes can triple or fall to a third
\* ------------------------------------------------------------------------
WideBars == 3

WidePrices == {10, 30}
WideSeriesSet ==
  UNION {{WarmupBars \o t : t \in SeqsOver(WidePrices, n)} : n \in 1..WideBars}

WideInit ==
  /\ \E series \in WideSeriesSet : SimInitWith(series)
  /\ SchedInitWith(<<>>, <<>>, <<>>)
  /\ PureIdle /\ PrepIdle /\ HistIdle

WideSpec == WideInit /\ [][SimNext]_vars

\* ------------------------------------------------------------------------
\* Specifications of the scheduler
\* ------------------------------------------------------------------------
\* Stored data in which every strategy gets the result r on every fetchable
\* timeframe of a symbol
Profile(reg, r) == [t \in Directories |-> [n \in Range(reg) |-> r]]
\* Two stores of series: no strategy ever wins anywhere, or every strategy
\* wins its single trade on the symbols at odd positions of the list.
StoredData(reg) ==
  {[s \in Range(Universe) |-> Profile(reg, ZeroResult)],
   [s \in Range(Universe) |->
      IF IndexIn(Universe, s) % 2 = 1
      THEN Profile(reg, BacktestResult(1, 1, 0, 3, R(1)))
      ELSE Profile(reg, ZeroResult)]}

\* The scheduler does not look at the registry beyond iterating it: an
\* empty registry and a registry of one strategy.
SchedRegistries == {<<>>, <<StrategyNames[1]>>}

SchedInit ==
  /\ \E reg \in SchedRegistries, coll \in Collections :
       \E d \in StoredData(reg) : SchedInitWith(reg, d, coll)
  /\ SimInitWith(<<>>)
  /\ PureIdle /\ PrepIdle /\ HistIdle

SchedSpec == SchedInit /\ [][SchedNext]_vars

\* The scheduler under the fairness Node's event loop gives: a callback
\* that is ready to run is eventually run.
\* It starts from an empty results.json.
FairSchedInit ==
  /\ \E reg \in Registries :
       SchedInitWith(reg,
         [s \in Range(Universe) |-> Profile(reg, ZeroResult)], <<>>)
  /\ SimInitWith(<<>>)
  /\ PureIdle /\ PrepIdle /\ HistIdle

FairSchedSpec == FairSchedInit /\ [][SchedNext]_vars /\ WF_vars(SchedNext)

\* One symbol (SPY) left to process, every combination of stored results
\* for it: the per-timeframe selection of processStockConcurrent.
AggCollection ==
  [n \in 1..Min2(MaxStored, Len(CsvSymbols)) |-> OldEntry(CsvSymbols[n], "yes")]
AggInit ==
  /\ \E reg \in Registries :
       \E spy \in [FetchedDirectories -> [Range(reg) -> ResultSet]] :
         SchedInitWith(reg,
           [s \in Range(Universe) |->
              IF s = "SPY"
              THEN [t \in Directories |->
                      IF t \in FetchedDirectories THEN spy[t]
                      ELSE [n \in Range(reg) |->
                              BacktestResult(1, 1, 0, 3, R(1))]]
              ELSE Profile(reg, ZeroResult)],
           AggCollection)
  /\ SimInitWith(<<>>)
  /\ PureIdle /\ PrepIdle /\ HistIdle

AggSpec == AggInit /\ [][SchedNext]_vars

\* ------------------------------------------------------------------------
\* Properties of the trade simulator (SimSpec)
\* ------------------------------------------------------------------------

\* C1: at most one position is open at a time - no trade of a series is
\* entered at a bar that lies before the exit bar of an earlier trade of
\* the same series (FLAT -> IN_TRADE -> FLAT).
OnePositionAtATime ==
  \A a, b \in DOMAIN tradeLog :
    a < b => tradeLog[a].exitBar <= tradeLog[b].entryBar

\* C2: once the balance after a trade exit is <= 0 the simulation is marked
\* ruined, no further position is opened at any later bar and the trade
\* count stays what it was, whatever the strategy returns.
RuinStopsTrading ==
  /\ trades = Len(tradeLog)
  /\ \A n \in DOMAIN tradeLog :
       RLe(tradeLog[n].balanceAfter, R(0)) => n = Len(tradeLog)
  /\ investmentGone <=>
       (tradeLog # <<>> /\ RLe(tradeLog[Len(tradeLog)].balanceAfter, R(0)))
  /\ investmentGone => balance = R(0)

\* C2 witness: the simulation is ruined and the strategy has signalled at a
\* later bar, which opened nothing.
RuinedThenSignalled ==
  /\ investmentGone
  /\ tradeSignal # NULL
  /\ i > tradeLog[Len(tradeLog)].entryBar + 1

\* C3 as stated: wins + losses == trades and the returned winRate is
\* exactly wins/trades*100 (0 when there is no trade).
WinRateIsExactRatio ==
  /\ wins + losses = trades
  /\ simPc = "done" =>
       /\ result.wins + result.losses = result.trades
       /\ IF result.trades > 0
          THEN result.winRate * result.trades = 100 * 100 * result.wins
          ELSE result.winRate = 0

\* C3 amended: wins + losses == trades at every bar boundary and in the
\* result; the returned winRate is wins/trades*100 rounded to two decimals
\* (at most 0.005 away from it), and 0 when there is no trade.
CountersAndRoundedWinRate ==
  /\ wins + losses = trades
  /\ simPc = "done" =>
       /\ result.wins + result.losses = result.trades
       /\ result.trades \in {0, trades}
       /\ result.trades > 0 => result.wins = wins
       /\ IF result.trades > 0
          THEN 2 * Abs(result.winRate * result.trades - 100 * 100 * result.wins)
                 <= result.trades
          ELSE result.winRate = 0

\* C3 witness: a returned result whose ratio is not a whole number of
\* hundredths (one win in three trades).
ThreeTradesOneWin ==
  /\ simPc = "done"
  /\ result.trades = 3
  /\ result.wins = 1

\* ------------------------------------------------------------------------
\* Properties of the scheduler and the result store (SchedSpec)
\* ------------------------------------------------------------------------
Settled(s) == task[s].st \in {"done", "failed"}
EntriesOf(q, s) == SelectSeq(q, LAMBDA e : e.symbol = s)
ThisRunEntry(s) == NewEntry(s, Output(s, task[s].timeframeResults))

\* C4: a failed store write in saveResult is fatal - once a symbol's task
\* has failed on its write, no further symbol is dispatched.
WriteFailureHaltsRun ==
  [][(\E s \in Range(Universe) : task[s].st \in {"rejected", "failed"})
       => dispatchLog' = dispatchLog]_vars

\* C5: a symbol whose task failed (the catch handler has logged it) is
\* dropped - no SymbolResult of this run for it is in the in-memory
\* collection or in the persisted file at any later point.
FailedSymbolDropped ==
  \A s \in failedLog :
    /\ \A n \in DOMAIN allResults : allResults[n] # ThisRunEntry(s)
    /\ \A n \in DOMAIN file.content : file.content[n] # ThisRunEntry(s)

\* C6: never more than `concurrency` tasks in flight; a round holds at most
\* `concurrency` tasks; a task is started only when every task of the
\* previous round has settled and the inter-round delay has elapsed.
BoundedWorkerPool ==
  /\ [](/\ Cardinality(InFlight) <= concurrency
        /\ Len(batch) <= concurrency
        /\ schedPc # "awaitAll" => InFlight = {})
  /\ [][dispatchLog' # dispatchLog =>
          /\ schedPc \in {"main", "sleep"}
          /\ \A s \in Range(dispatchLog) : Settled(s)
          /\ Len(dispatchLog') <= Len(dispatchLog) + concurrency]_vars

\* C6 witness: a later round is in flight with the pool full.
SecondRoundInFlight ==
  /\ Len(dispatchLog) > concurrency
  /\ InFlight # {}
  /\ \E s \in Range(Universe) : Settled(s)

\* C7 as stated: while a task is stuck the scheduler keeps dispatching, so
\* every other symbol outside the skip-set is eventually processed.
StuckTaskBlocksOnlyItsSlot ==
  \A s \in Range(Universe) :
    (Stuck # {}) ~>
      (s \in alreadyRetestedSymbols \/ s \in Stuck \/ Settled(s))

\* C7 amended: a task that never completes blocks the whole scheduler -
\* while it is stuck the scheduler stays at the Promise.all of that round
\* and no further task is dispatched.
StuckTaskBlocksScheduler ==
  /\ [](Stuck # {} => schedPc = "awaitAll")
  /\ [][Stuck # {} => dispatchLog' = dispatchLog]_vars

\* C7 witness: one task of a round is stuck, the other has settled, and
\* the backlog is not empty.
StuckWithBacklog ==
  /\ Stuck # {}
  /\ \E n \in DOMAIN batch : Settled(batch[n])
  /\ tradableStocks # <<>>

\* C8: a symbol whose persisted entry had retested == "yes" when the run
\* started is never dispatched and its entry is never rewritten.
SkipSetNeverProcessed ==
  \A s \in RetestedSymbols(file0) :
    /\ task[s].st = "idle"
    /\ s \notin Range(dispatchLog)
    /\ EntriesOf(allResults, s) = EntriesOf(file0, s)
    /\ file.valid => EntriesOf(file.content, s) = EntriesOf(file0, s)

\* C8 witness: a run with a non-empty skip-set has completed after
\* processing the other symbols.
RunDoneWithSkipSet ==
  /\ RetestedSymbols(file0) # {}
  /\ schedPc = "done"
  /\ processedCount > 0

\* C9: saveResult is an upsert keyed by symbol - absent: appended, "new";
\* present: the whole entry replaced, "yes"; one full rewrite of the file.
SaveResultIsUpsert ==
  lastSave.status \in {"new", "yes"} =>
    LET b == lastSave.before
        a == lastSave.after
        r == lastSave.result
        hits == {n \in DOMAIN b : b[n].symbol = lastSave.symbol}
        fresh == [symbol |-> lastSave.symbol, name |-> r.name,
                  overallWinRate |-> r.overallWinRate,
                  timeframes |-> r.timeframes,
                  replaced |-> "new", retested |-> "yes"]
    IN  /\ IF hits = {}
           THEN /\ lastSave.status = "new"
                /\ a = Append(b, fresh)
           ELSE /\ lastSave.status = "yes"
                /\ Len(a) = Len(b)
                /\ \E n \in hits :
                     /\ a[n] = fresh
                     /\ \A m \in DOMAIN b : m # n => a[m] = b[m]
        /\ lastSave.fileAfter = [valid |-> TRUE, content |-> a]
        /\ lastSave.writesAfter = lastSave.writesBefore + 1

\* C9 witness: a save that replaced an existing entry.
SavedOverExisting ==
  /\ lastSave.status = "yes"
  /\ \E n \in DOMAIN lastSave.before :
       /\ lastSave.before[n].symbol = lastSave.symbol
       /\ lastSave.before[n].name # lastSave.after[n].name

\* ------------------------------------------------------------------------
\* Properties of the per-timeframe selection (AggSpec)
\* ------------------------------------------------------------------------
RateOf(s, tf, n) == RunBacktestFromParquet(data, s, tf, strategies[n]).winRate
MaxRate(s, tf) ==
  IF strategies = <<>> THEN 0
  ELSE CHOOSE r \in {RateOf(s, tf, n) : n \in DOMAIN strategies} :
         \A n \in DOMAIN strategies : RateOf(s, tf, n) <= r
FirstWithRate(s, tf, r) ==
  strategies[CHOOSE n \in DOMAIN strategies :
               /\ RateOf(s, tf, n) = r
               /\ \A m \in 1..(n - 1) : RateOf(s, tf, m) # r]

\* C10 as stated: the strategy recorded for a timeframe is the one with the
\* highest winRate of the registry, the first in registry order on a tie.
RecordedIsFirstHighest ==
  \A s \in Range(Universe) :
    \A tf \in DOMAIN task[s].timeframeResults :
      strategies # <<>> =>
        task[s].timeframeResults[tf].strategy
          = FirstWithRate(s, tf, MaxRate(s, tf))

\* C10 amended: when the highest winRate of the registry is above 0 the
\* recorded strategy is the first one in registry order that has it, with
\* its result; when no strategy has a winRate above 0 the seed
\* {strategy: '', winRate: 0} is recorded.
RecordedIsFirstHighestAboveZero ==
  \A s \in Range(Universe) :
    \A tf \in DOMAIN task[s].timeframeResults :
      LET rec == task[s].timeframeResults[tf]
      IN  IF MaxRate(s, tf) > 0
          THEN /\ rec.strategy = FirstWithRate(s, tf, MaxRate(s, tf))
               /\ rec.winRate = MaxRate(s, tf)
          ELSE rec = Seed

\* C10 witness: a recorded timeframe on which two strategies tie for the
\* highest winRate, which is above 0.
TieAboveZeroRecorded ==
  \E s \in Range(Universe) :
    \E tf \in DOMAIN task[s].timeframeResults :
      /\ MaxRate(s, tf) > 0
      /\ Cardinality({n \in DOMAIN strategies :
                        RateOf(s, tf, n) = MaxRate(s, tf)}) >= 2
      /\ task[s].st = "done"

\* ------------------------------------------------------------------------
\* Error absorption of the trade simulator (SimSpec)
\* ------------------------------------------------------------------------

\* C11: an exception raised inside the simulate loop - also one thrown by
\* the strategy after trades were already counted - is absorbed by
\* runBacktestFromParquet: the call still returns, and what it returns is
\* the all-zero result, whatever the counters held when it was thrown.
ExceptionAbsorbedAsZero ==
  caught =>
    /\ simPc = "done"
    /\ result = [trades |-> 0, wins |-> 0, losses |-> 0, winRate |-> 0,
                 avgDuration |-> 0, avgRR |-> 0]

\* the strategy threw after at least one trade had been counted
ThrewAfterTrades == caught /\ trades > 0 /\ wins > 0

\* ------------------------------------------------------------------------
\* Dispatching, progress and the final ordering (SchedSpec)
\* ------------------------------------------------------------------------
ToRun == Range(Universe) \ alreadyRetestedSymbols
Finished == schedPc \in {"done", "fatal"}

\* C12: in one run over a symbol list without duplicates every symbol
\* outside the skip-set has its task started exactly once, whether the task
\* succeeds or fails: nothing ever enters the retry queue, no symbol is
\* dispatched twice, and once the backlog is empty no further round is
\* dispatched - the loop is left for the final rewrite.
EachSymbolStartedOnce ==
  /\ [](/\ retryQueue = <<>>
        /\ \A a, b \in DOMAIN dispatchLog :
             a # b => dispatchLog[a] # dispatchLog[b]
        /\ Range(dispatchLog) \subseteq ToRun
        /\ Finished => Range(dispatchLog) = ToRun /\ tradableStocks = <<>>)
  /\ [][schedPc = "sleep" /\ tradableStocks = <<>>
          => dispatchLog' = dispatchLog /\ schedPc' \in {"done", "fatal"}]_vars

\* a run that finished although one of its tasks had failed
FinishedAfterFailure ==
  /\ schedPc = "done"
  /\ failedLog # {}
  /\ Len(dispatchLog) = Len(Universe)

\* ------------------------------------------------------------------------
\* The rising-series scenario (RisingSpec)
\* ------------------------------------------------------------------------
LockLevel(t) == RAdd(t.entry, RMul(t.atr, LockFactor))

\* C13 as stated: on a strictly rising series with a long signal at the
\* first eligible bar there is exactly one trade, its exit price has reached
\* the target entry + targetDistance, and wins = 1, losses = 0,
\* winRate = 100.
RisingTradeExitsAtTarget ==
  simPc = "done" =>
    /\ trades = 1 /\ Len(tradeLog) = 1
    /\ RLe(tradeLog[1].target, tradeLog[1].exitPrice)
    /\ result.wins = 1 /\ result.losses = 0 /\ result.winRate = 10000

\* C13 amended: there is exactly one trade, entered at the first bar of the
\* loop; it is closed at the first scanned bar whose close has reached the
\* profit-lock level entry + 0.35 * ATR, or at the last scanned bar when no
\* scanned close reaches that level; wins = 1, losses = 0, winRate = 100.
RisingTradeExitsAtLock ==
  simPc = "done" =>
    /\ trades = 1 /\ Len(tradeLog) = 1
    /\ result.wins = 1 /\ result.losses = 0 /\ result.winRate = 10000
    /\ LET t == tradeLog[1]
       IN  /\ t.entryBar = WARMUP
           /\ t.exitPrice = Close(lower, t.exitBar)
           /\ \A j \in (t.entryBar + 1)..(t.exitBar - 1) :
                RLt(Close(lower, j), LockLevel(t))
           /\ \/ RLe(LockLevel(t), t.exitPrice)
              \/ t.exitBar = Min2(t.entryBar + HORIZON, Len(lower)) - 1

\* the single trade was closed by the profit lock, below its target
ClosedByLockBelowTarget ==
  /\ simPc = "done"
  /\ Len(tradeLog) = 1
  /\ tradeLog[1].exitBar > tradeLog[1].entryBar + 1
  /\ RLe(LockLevel(tradeLog[1]), tradeLog[1].exitPrice)
  /\ RLt(tradeLog[1].exitPrice, tradeLog[1].target)

\* C14: with an empty strategy registry processStockConcurrent records for
\* every one of its five timeframes the seed - strategy "" with winRate 0 -
\* and the symbol's entry has overallWinRate 0.
EmptyRegistryKeepsSeed ==
  strategies = <<>> =>
    \A s \in Range(Universe) :
      task[s].st # "idle" =>
        LET seeds == [t \in {"15Min", "1Hour", "4Hour", "1day", "1week"} |->
                        [strategy |-> "", winRate |-> 0]]
        IN  /\ task[s].timeframeResults = seeds
            /\ \E n \in DOMAIN allResults :
                 /\ allResults[n].symbol = s
                 /\ allResults[n].timeframes = seeds
                 /\ allResults[n].overallWinRate = 0

\* a whole run over an empty registry
EmptyRegistryRunDone ==
  /\ strategies = <<>>
  /\ schedPc = "done"
  /\ processedCount >= 2

\* C15: for a series with zero candles (also the empty series the candle
\* source returns for missing data) runBacktestFromParquet returns
\* {trades:0, wins:0, losses:0, winRate:0, avgDuration:0, avgRR:0}; the
\* strategy is never invoked and no exception is raised.
EmptySeriesGivesZero ==
  Len(lower) = 0 =>
    /\ calls = 0
    /\ ~caught
    /\ simPc = "done" =>
         result = [trades |-> 0, wins |-> 0, losses |-> 0, winRate |-> 0,
                   avgDuration |-> 0, avgRR |-> 0]

\* the call on an empty series has returned
EmptySeriesReturned == Len(lower) = 0 /\ simPc = "done"

\* C16: after every symbol task completes the scheduler recomputes progress
\* processed/total: processed counts every completed symbol of the run
\* (fulfilled or rejected), never exceeds total, and equals total when the
\* last round has finished.
ProgressCountsEveryCompleted ==
  /\ processedCount <= totalStocks
  /\ processedCount =
       Cardinality({s \in Range(Universe) : task[s].st \in {"done", "failed"}})
  /\ Finished => processedCount = totalStocks

SymbolsOf(q) == [n \in DOMAIN q |-> q[n].symbol]
IsPrefix(p, q) == Len(p) <= Len(q) /\ SubSeq(q, 1, Len(p)) = p

\* C17: when runConcurrentBacktests completes, the persisted collection is
\* ordered by overallWinRate descending (each entry's overallWinRate is >=
\* that of the entry after it), and this ordering is imposed only by the
\* single final rewrite: every earlier step of the run leaves the entries in
\* the positions they had and appends new ones at the end.
FinalRewriteSortsDescending ==
  /\ [](schedPc = "done" =>
          /\ file.valid
          /\ file.content = allResults
          /\ \A n \in 1..(Len(file.content) - 1) :
               file.content[n].overallWinRate
                 >= file.content[n + 1].overallWinRate)
  /\ [][schedPc' \notin {"done", "fatal"} =>
          IsPrefix(SymbolsOf(allResults), SymbolsOf(allResults'))]_vars

\* the final rewrite moved an entry: the collection of the last save was
\* not in descending order
FinalRewriteReordered ==
  /\ schedPc = "done"
  /\ lastSave.status \in {"new", "yes"}
  /\ SymbolsOf(lastSave.after) # SymbolsOf(allResults)

\* ------------------------------------------------------------------------
\* The position size (SizeSpec)
\* ------------------------------------------------------------------------

\* C18: position-size monotonicity - for a fixed stop distance, entry price
\* and balance, the size min(max(balance*f, minimumRiskAmount)/stopDistance,
\* balance/entry) never decreases when the risk fraction f increases.
SizeMonotoneInFraction ==
  fnOut.kind = "size" => RLe(fnOut.lo, fnOut.hi)

\* a larger fraction that bought a strictly larger size
LargerFractionLargerSize ==
  /\ fnOut.kind = "size"
  /\ RLt(fnIn.f1, fnIn.f2)
  /\ RLt(fnOut.lo, fnOut.hi)

\* ------------------------------------------------------------------------
\* What the consumers read from the persisted collection (SchedSpec)
\* ------------------------------------------------------------------------
HasBestStrategy(e) ==
  \E tf \in DOMAIN e.timeframes : e.timeframes[tf].strategy # ""

\* C19: for every symbol whose entry saveResult persisted with a non-empty
\* best strategy in some timeframe, loadStrategies and
\* loadHighestWinRateStrategies obtain a non-null best strategy from the
\* persisted collection, so that evaluateStrategy can produce an alert.
ConsumersObtainBestStrategy ==
  file.valid =>
    \A n \in DOMAIN file.content :
      HasBestStrategy(file.content[n]) =>
        LET symbol == file.content[n].symbol
        IN  /\ OrNull(loadStrategies(file.content), symbol) # NULL
            /\ OrNull(loadHighestWinRateStrategies(file.content), symbol) # NULL
            /\ evaluateStrategy(OrNull(loadStrategies(file.content), symbol))
                 = "alert possible"

\* ------------------------------------------------------------------------
\* The morning sequence (PrepSpec)
\* ------------------------------------------------------------------------
SucceededBefore(name, p) ==
  \E q \in 1..(p - 1) :
    prepLog[q].ev = "exit" /\ prepLog[q].script = name /\ prepLog[q].code = 0

\* C20: in the morning sequence fullbacktest.js is started only after the
\* historical data update and the optionable-list update have completed
\* successfully; and once a script has failed in its retry too, no later
\* script of the sequence is started in that morningPrep run.
BacktestOnlyAfterUpdates ==
  /\ \A p \in DOMAIN prepLog :
       prepLog[p].ev = "start" /\ prepLog[p].script = "FullBacktest" =>
         /\ SucceededBefore("HistoricalDBBuilder", p)
         /\ SucceededBefore("UpdateOptionableList", p)
  /\ \A p \in DOMAIN prepLog :
       /\ prepLog[p].ev = "exit"
       /\ prepLog[p].code # 0
       /\ prepLog[p].attempt = Retries + 1
       => \A q \in DOMAIN prepLog : q > p => prepLog[q].ev # "start"

\* the first script needed its retry, the second failed twice
StoppedAtSecondScript ==
  /\ prepPc = "finished"
  /\ prepResults = [successes |-> 1, failures |-> 1, retries |-> 0]
  /\ Len(prepLog) = 8

\* ------------------------------------------------------------------------
\* The historical updater (HistSpec)
\* ------------------------------------------------------------------------

\* C21: every run of the historical updater brings every tracked pair up
\* to date - on a run after the first, a symbol/timeframe that already has
\* stored data is fetched again, from the day after its last stored bar
\* through the current day.
UpdaterRefetchesStoredPairs ==
  histPc = "exited" /\ histRun > 1 =>
    \A k \in Pairs :
      storedAtStart[k] > 0 =>
        [key |-> k, from |-> Min2(storedAtStart[k] + 1, today), to |-> today]
          \in fetched

\* ------------------------------------------------------------------------
\* Entries, sizes and balances of the trade simulator
\* ------------------------------------------------------------------------

\* C22: cooldown - for any strategy function a non-null signal opens a
\* position at bar i only if i - lastTradeIndex >= COOLDOWN: consecutive
\* trade entries of one series are never fewer than COOLDOWN bars apart.
CooldownBetweenEntries ==
  \A n \in 1..(Len(tradeLog) - 1) :
    tradeLog[n + 1].entryBar - tradeLog[n].entryBar >= COOLDOWN

\* the size lines 109-111 give for a trade of the log
SizeOf(t) ==
  LET stop == dynamicRisk(t.entry, t.signal, t.atr).stop
      stopDistance == RMax(RAbs(RSub(t.entry, stop)), <<1, 10000>>)
      riskBudget == RMax(RMul(t.balanceBefore, <<15, 100>>), R(30))
  IN  RMin(RDiv(riskBudget, stopDistance), RDiv(t.balanceBefore, t.entry))

\* C23 as stated: on every entry the size is min(riskBudget/stopDistance,
\* balance/entryPrice) with riskBudget = max(balance*0.15, 30), and the
\* balance after a trade equals the balance before it plus the trade's
\* profitLoss.
BalanceAfterIsBeforePlusProfit ==
  \A n \in DOMAIN tradeLog :
    /\ tradeLog[n].size = SizeOf(tradeLog[n])
    /\ tradeLog[n].balance =
         RAdd(tradeLog[n].balanceBefore, tradeLog[n].profitLoss)

\* C23 amended: the size is as stated, and the balance after a trade is the
\* balance before it plus the trade's profitLoss when that sum is positive,
\* and 0 when the sum is zero or negative (the simulation is then ruined).
BalanceAfterIsClampedSum ==
  \A n \in DOMAIN tradeLog :
    LET t == tradeLog[n]
        sum == RAdd(t.balanceBefore, t.profitLoss)
    IN  /\ t.size = SizeOf(t)
        /\ t.balance = IF RLe(sum, R(0)) THEN R(0) ELSE sum
        /\ RLe(sum, R(0)) => investmentGone
        /\ n < Len(tradeLog) => tradeLog[n + 1].balanceBefore = t.balance
        /\ n = Len(tradeLog) => balance = t.balance

\* a trade that lost more than the whole balance
LostMoreThanBalance ==
  \E n \in DOMAIN tradeLog :
    /\ RLt(RAdd(tradeLog[n].balanceBefore, tradeLog[n].profitLoss), R(0))
    /\ balance = R(0)

\* the position of a trade of the log, and the bars of its horizon at which
\* a stop, target or profit-lock condition holds
PositionOf(t) ==
  [signal |-> t.signal, index |-> t.entryBar, entry |-> t.entry,
   stop |-> dynamicRisk(t.entry, t.signal, t.atr).stop,
   target |-> t.target, size |-> t.size, atr |-> t.atr]
ProfitAt(t, j) ==
  IF t.signal = "long"
  THEN RMul(t.size, RSub(Close(lower, j), t.entry))
  ELSE RMul(t.size, RSub(t.entry, Close(lower, j)))
ExitBarsWithin(t, h) ==
  {j \in (t.entryBar + 1)..Min2(t.entryBar + h, Len(lower) - 1) :
     ExitHit(PositionOf(t), Close(lower, j), ProfitAt(t, j))}

\* C24: the forward scan of a trade entered at bar i starts at bar i+1 and
\* covers the holding horizon of 12 bars - a trade that meets no stop,
\* target or profit-lock condition and has at least 12 bars left in the
\* series is held for exactly 12 bars and closed at the close of the last
\* of them; no trade's duration exceeds 12.
HeldForWholeHorizon ==
  \A n \in DOMAIN tradeLog :
    LET t == tradeLog[n]
    IN  /\ t.exitBar - t.entryBar <= HORIZON
        /\ (ExitBarsWithin(t, HORIZON) = {}
              /\ (Len(lower) - 1) - t.entryBar >= HORIZON)
             => /\ t.exitBar - t.entryBar = HORIZON
                /\ t.exitPrice = Close(lower, t.entryBar + HORIZON)

\* ------------------------------------------------------------------------
\* The timeframes of a task and the stored series (SchedSpec)
\* ------------------------------------------------------------------------
\* the directory that holds the stored series of a timeframe
DirectoryOf(tf) ==
  IF tf = "15Min" THEN "15min"
  ELSE IF tf = "1Hour" THEN "1hour"
  ELSE IF tf = "4Hour" THEN "4hour" ELSE tf

\* C25: each of the five timeframes processStockConcurrent iterates
\* resolves to a data directory in tfMap, so when a symbol's stored series
\* exists for a timeframe the simulator receives its candles - a strategy
\* that wins on the stored series of a timeframe gives that timeframe a
\* recorded winRate above 0.
EveryTimeframeResolves ==
  \A s \in Range(Universe) :
    \A tf \in DOMAIN task[s].timeframeResults :
      (\E n \in DOMAIN strategies :
         data[s][DirectoryOf(tf)][strategies[n]].winRate > 0)
        => task[s].timeframeResults[tf].winRate > 0

\* ------------------------------------------------------------------------
\* Concurrent tasks and the result store (SchedSpec)
\* ------------------------------------------------------------------------
HoldsResultOf(q, s) ==
  \E n \in DOMAIN q :
    /\ q[n].symbol = s
    /\ q[n].timeframes = task[s].timeframeResults
    /\ q[n].retested = "yes"

\* C26: no lost update between concurrent symbol tasks - saveResult runs
\* without a suspension point, so once tasks that interleaved at their
\* data-load awaits have completed, the in-memory collection and the
\* persisted file hold the result of each of them.
NoLostUpdate ==
  \A s \in Range(Universe) :
    task[s].st \in {"resolved", "done"} =>
      /\ HoldsResultOf(allResults, s)
      /\ file.valid => HoldsResultOf(file.content, s)

\* both tasks of a round completed, the one dispatched second saved first
RoundOfTwoInterleaved ==
  /\ strategies # <<>>
  /\ Len(batch) = 2
  /\ task[batch[1]].st = "done" /\ task[batch[2]].st = "done"
  /\ lastSave.status \in {"new", "yes"}
  /\ lastSave.symbol = batch[1]
  /\ HoldsResultOf(file.content, batch[1])
  /\ HoldsResultOf(file.content, batch[2])

\* ------------------------------------------------------------------------
\* Target and profit lock (ExitSpec)
\* ------------------------------------------------------------------------
\* the move of the close in the direction of the trade
FavourableMove ==
  IF fnIn.signal = "long" THEN RSub(fnIn.price, fnIn.entry)
  ELSE RSub(fnIn.entry, fnIn.price)

\* C27: with ATR >= 0, a scanned bar at which the target condition holds
\* also satisfies the profit-lock condition, and a bar at which the scan
\* breaks with a profit is a bar whose favourable move is at least
\* 0.35 * ATR, at which the profit lock holds.
TargetImpliesProfitLock ==
  fnOut.kind = "exit" =>
    /\ fnOut.targetHit => fnOut.lockHit
    /\ (fnOut.break /\ RLt(R(0), fnOut.tradeProfitLoss)) =>
         /\ fnOut.lockHit
         /\ RLe(RMul(fnIn.atr, LockFactor), FavourableMove)
    /\ RLe(RMul(fnIn.atr, LockFactor), FavourableMove) => fnOut.lockHit

\* a bar at which the close has reached the target of a trade with ATR > 0
TargetReached ==
  /\ fnOut.kind = "exit"
  /\ RLt(R(0), fnIn.atr)
  /\ fnOut.targetHit
  /\ fnOut.lockHit

\* ------------------------------------------------------------------------
\* Ruin (WideSpec)
\* ------------------------------------------------------------------------
AllLong == \A n \in DOMAIN tradeLog : tradeLog[n].signal = "long"

\* C28: with strictly positive closes the balance is strictly positive
\* after the exit of every long trade, so a simulation whose trades are all
\* long never sets the ruin flag; the flag is set only by a short trade.
LongTradesNeverRuin ==
  /\ \A n \in DOMAIN tradeLog :
       tradeLog[n].signal = "long" =>
         /\ RLe(RMul(tradeLog[n].size, tradeLog[n].entry),
                tradeLog[n].balanceBefore)
         /\ RLt(R(0), tradeLog[n].balanceAfter)
         /\ tradeLog[n].balance = tradeLog[n].balanceAfter
  /\ AllLong => ~investmentGone /\ RLt(R(0), balance)
  /\ investmentGone =>
       \E n \in DOMAIN tradeLog :
         /\ tradeLog[n].signal = "short"
         /\ RLe(tradeLog[n].balanceAfter, R(0))

\* a long trade that took the whole balance and closed at a third of its
\* entry price, in a simulation of long trades only
LongLostTwoThirds ==
  /\ tradeLog # <<>>
  /\ AllLong
  /\ \E n \in DOMAIN tradeLog :
       /\ RMul(tradeLog[n].size, tradeLog[n].entry) = tradeLog[n].balanceBefore
       /\ tradeLog[n].entry = R(30)
       /\ tradeLog[n].exitPrice = R(10)
       /\ RLt(tradeLog[n].profitLoss, R(0))

\* ------------------------------------------------------------------------
\* Wins, losses and the trade opened on the final bar (SimSpec)
\* ------------------------------------------------------------------------
NonNegativeTrades ==
  {n \in DOMAIN tradeLog : RLe(R(0), tradeLog[n].profitLoss)}
NegativeTrades ==
  {n \in DOMAIN tradeLog : RLt(tradeLog[n].profitLoss, R(0))}

\* C29: a trade is counted as a win exactly when its realized profitLoss is
\* >= 0 and as a loss otherwise; a trade opened on the final bar of the
\* series scans no bar, has duration 0 and profitLoss 0, and is counted as
\* one trade and one win.
WinIffProfitNotNegative ==
  /\ trades = Len(tradeLog)
  /\ wins = Cardinality(NonNegativeTrades)
  /\ losses = Cardinality(NegativeTrades)
  /\ \A n \in DOMAIN tradeLog :
       tradeLog[n].entryBar = Len(lower) - 1 =>
         /\ tradeLog[n].exitBar = tradeLog[n].entryBar
         /\ tradeLog[n].exitPrice = tradeLog[n].entry
         /\ tradeLog[n].profitLoss = R(0)
         /\ n \in NonNegativeTrades
  /\ simPc = "done" /\ ~caught =>
       /\ result.trades = Len(tradeLog)
       /\ result.wins = Cardinality(NonNegativeTrades)
       /\ result.losses = Cardinality(NegativeTrades)

\* the only trade of a returned simulation was opened on the final bar
OnlyTradeOnFinalBar ==
  /\ simPc = "done" /\ ~caught
  /\ Len(tradeLog) = 1
  /\ tradeLog[1].entryBar = Len(lower) - 1
  /\ result.trades = 1 /\ result.wins = 1 /\ result.losses = 0

\* ------------------------------------------------------------------------
\* What saveResult leaves alone (SchedSpec)
\* ------------------------------------------------------------------------
OnePerSymbol(q) ==
  \A a, b \in DOMAIN q : q[a].symbol = q[b].symbol => a = b

\* C30: saveResult(s, r) changes only the entry for symbol s - every other
\* entry keeps its content and its position, the collection grows by
\* exactly one entry on "new" and keeps its size on "yes", and a collection
\* with at most one entry per symbol keeps at most one entry per symbol.
SaveResultTouchesOnlyItsSymbol ==
  /\ lastSave.status # "none" =>
       /\ \A n \in DOMAIN lastSave.before :
            lastSave.before[n].symbol # lastSave.symbol =>
              /\ n \in DOMAIN lastSave.after
              /\ lastSave.after[n] = lastSave.before[n]
       /\ \A n \in DOMAIN lastSave.after :
            lastSave.after[n].symbol # lastSave.symbol =>
              n \in DOMAIN lastSave.before
       /\ lastSave.status = "new" =>
            Len(lastSave.after) = Len(lastSave.before) + 1
       /\ lastSave.status = "yes" =>
            Len(lastSave.after) = Len(lastSave.before)
       /\ OnePerSymbol(lastSave.before) => OnePerSymbol(lastSave.after)
  /\ OnePerSymbol(file0) => OnePerSymbol(allResults)

\* a save that added a symbol to a collection holding another symbol
SavedBesideAnotherSymbol ==
  /\ lastSave.status = "new"
  /\ lastSave.before # <<>>
  /\ \A n \in DOMAIN lastSave.before :
       lastSave.before[n].symbol # lastSave.symbol
  /\ Len(allResults) = 2

====
